---- MODULE Spec2Model ----
(***************************************************************************)
(* Model of the experiment manager of the extraction pipeline              *)
(* (backend/app/services/experiment_service.py) over its DynamoDB table.   *)
(*                                                                         *)
(* The table is a partial map from experiment_id to an item; an item is a  *)
(* map from attribute names to values.  put_item replaces the whole item;  *)
(* update_item without a ConditionExpression edits the named attributes of *)
(* the item, or adds a new item holding the key and the named attributes   *)
(* when the key is not in the table.  Each table request is atomic; a      *)
(* service method that issues two requests (get_item then update_item) is  *)
(* two steps, and other callers may run between them.                      *)
(*                                                                         *)
(* Optional values are modelled as sequences: None is << >> and a present  *)
(* value x is <<x>>.  The clock counts ticks finer than a second, as       *)
(* datetime.utcnow() does; int(timestamp()) truncates it to whole seconds. *)
(*                                                                         *)
(* store     the experiments table                                         *)
(* now       the clock                                                     *)
(* pend      per caller, the call whose second table request is still to   *)
(*           come, with the locals that request uses                       *)
(* ret       the most recent call and what it returned                     *)
(* recorded  history: per experiment put by create, the record_request     *)
(*           calls completed for each counter since that put               *)
(* results   the extraction results table (medextract-results), from       *)
(*           document_id to the item of the document                       *)
(***************************************************************************)
EXTENDS Integers, Sequences, FiniteSets, TLC

VARIABLES store, now, pend, ret, recorded, results

vars == <<store, now, pend, ret, recorded, results>>

----------------------------------------------------------------------------
(* Bounds of the model *)

NumProcs == 2
MaxClock == 1
TicksPerSecond == 2
MaxItems == 1
MaxRequests == 2

Procs == 1..NumProcs

(* Inputs the callers choose from *)
Versions == {"v1", "v2"}
Controls == {"v1"}
Treatments == Versions
Names == {"n1", "n2"}
RequestVersions == Versions \cup {"vX"}
Winners == Versions \cup {"vX"}
Conclusions == {"c1"}

None == << >>
Some(x) == <<x>>

----------------------------------------------------------------------------
(* ExperimentStatus *)

DRAFT == "draft"
RUNNING == "running"
COMPLETED == "completed"
PROMOTED == "promoted"
ROLLED_BACK == "rolled_back"

ExperimentStatus == {DRAFT, RUNNING, COMPLETED, PROMOTED, ROLLED_BACK}

----------------------------------------------------------------------------
(* create_experiment: the id, the Experiment object and its item *)

ExperimentId(t, control_version, treatment_version) ==
    <<"exp", t \div TicksPerSecond, control_version, "vs", treatment_version>>

Ids == {ExperimentId(t, c, tr) : t \in 0..MaxClock, c \in Controls, tr \in Treatments}

NoId == << >>

(* An Experiment built with started_at set at creation *)
NewExperimentStarted(name, control_version, treatment_version, t) ==
    [experiment_id      |-> ExperimentId(t, control_version, treatment_version),
     name               |-> name,
     description        |-> "d1",
     control_version    |-> control_version,
     treatment_version  |-> treatment_version,
     traffic_allocation |-> "50/50",
     target_sample_size |-> "100",
     status             |-> DRAFT,
     created_at         |-> t,
     started_at         |-> Some(t),
     ended_at           |-> None,
     control_requests   |-> 0,
     treatment_requests |-> 0,
     winner             |-> None,
     conclusion         |-> None]

NewExperiment(name, control_version, treatment_version, t) ==
    [experiment_id      |-> ExperimentId(t, control_version, treatment_version),
     name               |-> name,
     description        |-> "d1",
     control_version    |-> control_version,
     treatment_version  |-> treatment_version,
     traffic_allocation |-> "50/50",
     target_sample_size |-> "100",
     status             |-> DRAFT,
     created_at         |-> t,
     started_at         |-> None,
     ended_at           |-> None,
     control_requests   |-> 0,
     treatment_requests |-> 0,
     winner             |-> None,
     conclusion         |-> None]

ExperimentToItem(experiment) ==
    [experiment_id      |-> experiment.experiment_id,
     name               |-> experiment.name,
     description        |-> experiment.description,
     control_version    |-> experiment.control_version,
     treatment_version  |-> experiment.treatment_version,
     traffic_allocation |-> experiment.traffic_allocation,
     target_sample_size |-> experiment.target_sample_size,
     status             |-> experiment.status,
     created_at         |-> experiment.created_at,
     started_at         |-> experiment.started_at,
     ended_at           |-> experiment.ended_at,
     control_requests   |-> experiment.control_requests,
     treatment_requests |-> experiment.treatment_requests,
     winner             |-> experiment.winner,
     conclusion         |-> experiment.conclusion]

(* Attributes _item_to_experiment reads with item[...]: a missing one raises *)
RequiredAttrs ==
    {"experiment_id", "name", "description", "control_version", "treatment_version",
     "traffic_allocation", "target_sample_size", "status", "created_at"}

Attr(item, a, default) == IF a \in DOMAIN item THEN item[a] ELSE default

ItemToExperiment(item) ==
    [experiment_id      |-> item.experiment_id,
     name               |-> item.name,
     description        |-> item.description,
     control_version    |-> item.control_version,
     treatment_version  |-> item.treatment_version,
     traffic_allocation |-> item.traffic_allocation,
     target_sample_size |-> item.target_sample_size,
     status             |-> item.status,
     created_at         |-> item.created_at,
     started_at         |-> Attr(item, "started_at", None),
     ended_at           |-> Attr(item, "ended_at", None),
     control_requests   |-> Attr(item, "control_requests", 0),
     treatment_requests |-> Attr(item, "treatment_requests", 0),
     winner             |-> Attr(item, "winner", None),
     conclusion         |-> Attr(item, "conclusion", None)]

NoExperiment == [experiment_id |-> NoId]

(* get_experiment: None when the key is absent or the item cannot be converted *)
Found(id) == id \in DOMAIN store /\ RequiredAttrs \subseteq DOMAIN store[id]

GetExperiment(id) == IF Found(id) THEN ItemToExperiment(store[id]) ELSE NoExperiment

----------------------------------------------------------------------------
(* The table requests *)

PutItem(tbl, item) == (item.experiment_id :> item) @@ tbl

(* update_item with "SET a = :v, ...": an upsert *)
UpdateItem(tbl, id, sets) ==
    IF id \in DOMAIN tbl
    THEN (id :> (sets @@ tbl[id])) @@ tbl
    ELSE (id :> (sets @@ [experiment_id |-> id])) @@ tbl

(* The table grows only up to MaxItems keys *)
Room(id) == id \in DOMAIN store \/ Cardinality(DOMAIN store) < MaxItems

NoCall == [op |-> "idle", id |-> NoId, field |-> "-", seen |-> 0]

(* The most recent call and what it returned: True, False, None, an           *)
(* Experiment, an exception raised, or "pending" while its second request is *)
(* outstanding                                                               *)
Ret(op, id, val, experiment) == [op |-> op, id |-> id, val |-> val, exp |-> experiment]

ZeroCount == [control_requests |-> 0, treatment_requests |-> 0]

----------------------------------------------------------------------------
Init ==
    /\ store = << >>
    /\ now = 0
    /\ pend = [p \in Procs |-> NoCall]
    /\ ret = Ret("init", NoId, "None", NoExperiment)
    /\ recorded = << >>
    /\ results = << >>

(* The clock advances *)
Tick ==
    /\ now < MaxClock
    /\ now' = now + 1
    /\ UNCHANGED <<store, pend, ret, recorded, results>>

(* create_experiment: builds the Experiment and put_item()s it; its two reads *)
(* of the clock (for the id and for created_at) fall in this one step        *)
CreateExperiment(p, name, control_version, treatment_version) ==
    LET experiment == NewExperiment(name, control_version, treatment_version, now)
        id == experiment.experiment_id
    IN /\ pend[p].op = "idle"
       /\ Room(id)
       /\ store' = PutItem(store, ExperimentToItem(experiment))
       /\ recorded' = (id :> ZeroCount) @@ recorded
       /\ ret' = Ret("create", id, "Experiment", experiment)
       /\ UNCHANGED <<now, pend, results>>

(* A start that does not look at the status it read *)
StartGuardAny(experiment) == TRUE

(* start_experiment, first request: get_experiment and the status check *)
StartGuard(experiment) == experiment.status = DRAFT

StartRead(p, id) ==
    /\ pend[p].op = "idle"
    /\ IF Found(id) /\ StartGuard(GetExperiment(id))
       THEN /\ pend' = [pend EXCEPT ![p] = [op |-> "start", id |-> id, field |-> "-",
                                            seen |-> 0]]
            /\ ret' = Ret("start", id, "pending", NoExperiment)
       ELSE /\ pend' = pend
            /\ ret' = Ret("start", id, "False", NoExperiment)
    /\ UNCHANGED <<store, now, recorded, results>>

(* A start that also resets the request counters *)
StartUpdateReset(tbl, id, t) ==
    UpdateItem(tbl, id, [status |-> RUNNING, started_at |-> Some(t),
                         control_requests |-> 0, treatment_requests |-> 0])

(* start_experiment, second request: update_item SET #status, started_at *)
StartUpdate(tbl, id, t) ==
    UpdateItem(tbl, id, [status |-> RUNNING, started_at |-> Some(t)])

StartWrite(p) ==
    /\ pend[p].op = "start"
    /\ Room(pend[p].id)
    /\ store' = StartUpdate(store, pend[p].id, now)
    /\ pend' = [pend EXCEPT ![p] = NoCall]
    /\ ret' = Ret("start", pend[p].id, "True", NoExperiment)
    /\ UNCHANGED <<now, recorded, results>>

(* A variant that counts only the treatment version as treatment *)
CounterFieldTreatmentOnly(experiment, version) ==
    IF version = experiment.treatment_version
    THEN "treatment_requests" ELSE "control_requests"

(* record_request, first request: get_experiment and the choice of the counter *)
CounterField(experiment, version) ==
    IF version = experiment.control_version
    THEN "control_requests" ELSE "treatment_requests"

(* The requests recorded for an experiment, and those on their way: the model *)
(* accepts a record_request only while their number is below MaxRequests     *)
Requests(id) ==
    Attr(store[id], "control_requests", 0) + Attr(store[id], "treatment_requests", 0)
    + Cardinality({q \in Procs : pend[q].op = "record" /\ pend[q].id = id})

RecordRead(p, id, version) ==
    /\ pend[p].op = "idle"
    /\ IF Found(id)
       THEN LET field == CounterField(GetExperiment(id), version)
            IN /\ Requests(id) < MaxRequests
               /\ pend' = [pend EXCEPT ![p] = [op |-> "record", id |-> id, field |-> field,
                                               seen |-> GetExperiment(id)[field]]]
               /\ ret' = Ret("record", id, "pending", NoExperiment)
       ELSE /\ pend' = pend
            /\ ret' = Ret("record", id, "None", NoExperiment)
    /\ UNCHANGED <<store, now, recorded, results>>

(* A read-modify-write increment: writes the value the caller read, plus one *)
RecordUpdateStale(tbl, id, field, seen) ==
    UpdateItem(tbl, id, (field :> (seen + 1)))

(* record_request, second request: update_item SET field = field + :inc,      *)
(* evaluated by the table on the item as it is when the request arrives; it   *)
(* is rejected when the item or the attribute does not exist                  *)
RecordUpdate(tbl, id, field, seen) ==
    UpdateItem(tbl, id, (field :> (tbl[id][field] + 1)))

RecordWrite(p) ==
    LET id == pend[p].id
        field == pend[p].field
    IN /\ pend[p].op = "record"
       /\ pend' = [pend EXCEPT ![p] = NoCall]
       /\ IF id \in DOMAIN store /\ field \in DOMAIN store[id]
          THEN /\ store' = RecordUpdate(store, id, field, pend[p].seen)
               /\ recorded' = IF id \in DOMAIN recorded
                              THEN [recorded EXCEPT ![id][field] = @ + 1]
                              ELSE recorded
               /\ ret' = Ret("record", id, "None", NoExperiment)
          ELSE /\ UNCHANGED <<store, recorded>>
               /\ ret' = Ret("record", id, "raise", NoExperiment)
       /\ UNCHANGED <<now, results>>

(* complete_experiment: one update_item, no read before it *)
CompleteUpdate(tbl, id, winner, conclusion, t) ==
    UpdateItem(tbl, id, [status |-> COMPLETED, ended_at |-> Some(t),
                         winner |-> Some(winner), conclusion |-> Some(conclusion)])

CompleteExperiment(p, id, winner, conclusion) ==
    /\ pend[p].op = "idle"
    /\ Room(id)
    /\ store' = CompleteUpdate(store, id, winner, conclusion, now)
    /\ ret' = Ret("complete", id, "True", NoExperiment)
    /\ UNCHANGED <<now, pend, recorded, results>>

(* A variant that sets the status of every item of the table *)
PromoteUpdateEvery(tbl, id) ==
    [k \in DOMAIN UpdateItem(tbl, id, [status |-> PROMOTED]) |->
        [status |-> PROMOTED] @@ UpdateItem(tbl, id, [status |-> PROMOTED])[k]]

(* promote_treatment: one update_item, no read before it *)
PromoteUpdate(tbl, id) == UpdateItem(tbl, id, [status |-> PROMOTED])

PromoteTreatment(p, id) ==
    /\ pend[p].op = "idle"
    /\ Room(id)
    /\ store' = PromoteUpdate(store, id)
    /\ ret' = Ret("promote", id, "True", NoExperiment)
    /\ UNCHANGED <<now, pend, recorded, results>>

Next ==
    \/ Tick
    \/ \E p \in Procs, n \in Names, c \in Controls, tr \in Treatments :
          CreateExperiment(p, n, c, tr)
    \/ \E p \in Procs, id \in Ids : StartRead(p, id)
    \/ \E p \in Procs : StartWrite(p)
    \/ \E p \in Procs, id \in Ids, v \in RequestVersions : RecordRead(p, id, v)
    \/ \E p \in Procs : RecordWrite(p)
    \/ \E p \in Procs, id \in Ids, w \in Winners, c \in Conclusions :
          CompleteExperiment(p, id, w, c)
    \/ \E p \in Procs, id \in Ids : PromoteTreatment(p, id)

Spec == Init /\ [][Next]_vars

----------------------------------------------------------------------------
(* Properties *)

Status(id) == store[id].status

NonDraft == {RUNNING, COMPLETED, PROMOTED, ROLLED_BACK}

(* A stored experiment that tests two distinct versions *)
Tested(id) == Found(id) /\ store[id].control_version # store[id].treatment_version

(* C1: record_request calls for the same experiment and version, their reads   *)
(* and writes interleaved in any order, lose no increment: each counter of an  *)
(* experiment equals the number of record_request calls completed for it since *)
(* create stored it with both counters at zero.                                *)
C1_NoLostUpdate ==
    \A id \in DOMAIN recorded :
        /\ store[id].control_requests = recorded[id].control_requests
        /\ store[id].treatment_requests = recorded[id].treatment_requests

(* A record_request has just written while another call, which read the        *)
(* counter before that write, has its own write still to come.                 *)
C1_Witness ==
    /\ ret.op = "record" /\ ret.val = "None"
    /\ \E p \in Procs :
          /\ pend[p].op = "record" /\ pend[p].id = ret.id
          /\ pend[p].id \in DOMAIN recorded
          /\ store[pend[p].id][pend[p].field] > pend[p].seen

(* C2: concurrent start/complete/promote calls are mutually exclusive: the     *)
(* write of a start is applied only if the status is still draft when it       *)
(* arrives, so a second concurrent start, or a start that raced with a         *)
(* complete, writes nothing.                                                   *)
C2_StartAppliedOnlyFromDraft ==
    [][\A p \in Procs :
          (StartWrite(p) /\ Tested(pend[p].id)) => Status(pend[p].id) = DRAFT]_vars

(* C3: a start call on an experiment whose status is running, completed,       *)
(* promoted or rolled_back returns failure, changes no field of any stored     *)
(* record and leaves no write outstanding, however often it is repeated.       *)
C3_IllegalStartNoEffect ==
    [][\A p \in Procs, id \in Ids :
          (StartRead(p, id) /\ Found(id) /\ Status(id) \in NonDraft)
             => (ret'.val = "False" /\ store' = store /\ pend' = pend)]_vars

C3_Witness ==
    /\ ret.op = "start" /\ ret.val = "False"
    /\ Found(ret.id) /\ Status(ret.id) \in NonDraft

(* C4: a start call on an existing draft experiment goes on to its write, and  *)
(* the write returns success, sets status to running and started_at to the     *)
(* current time, and changes no other attribute of the record.                 *)
C4_StartSetsOnlyStatusAndStartedAt ==
    [][/\ \A p \in Procs, id \in Ids :
             (StartRead(p, id) /\ Found(id) /\ Status(id) = DRAFT)
                => (pend'[p].op = "start" /\ pend'[p].id = id /\ store' = store)
       /\ \A p \in Procs :
             StartWrite(p) =>
                LET id == pend[p].id IN
                /\ ret'.val = "True"
                /\ store'[id].status = RUNNING
                /\ store'[id].started_at = Some(now)
                /\ DOMAIN store'[id] = DOMAIN store[id]
                /\ \A a \in DOMAIN store[id] \ {"status", "started_at"} :
                      store'[id][a] = store[id][a]]_vars

C4_Witness ==
    /\ ret.op = "start" /\ ret.val = "True"
    /\ Found(ret.id) /\ Status(ret.id) = RUNNING
    /\ store[ret.id].started_at = Some(now)
    /\ store[ret.id].control_requests > 0

(* C5: complete on an experiment that is not running fails, and status,        *)
(* ended_at, winner and conclusion stay as they were.                          *)
C5_CompleteRequiresRunning ==
    [][\A p \in Procs, id \in Ids, w \in Winners, c \in Conclusions :
          (CompleteExperiment(p, id, w, c) /\ Tested(id) /\ Status(id) # RUNNING)
             => (ret'.val = "False" /\ store' = store)]_vars

(* C6: winner is null or one of the two tested versions in every stored        *)
(* experiment.                                                                 *)
C6_WinnerIsTestedVersion ==
    \A id \in DOMAIN store :
        Tested(id) =>
            GetExperiment(id).winner \in
                {None, Some(store[id].control_version), Some(store[id].treatment_version)}

(* C7: promote sets status to promoted on a completed experiment, and on an    *)
(* experiment in any other status fails and leaves the status as it was.       *)
C7_PromoteOnlyFromCompleted ==
    [][\A p \in Procs, id \in Ids :
          (PromoteTreatment(p, id) /\ Tested(id))
             => IF Status(id) = COMPLETED
                THEN store'[id].status = PROMOTED
                ELSE ret'.val = "False" /\ store'[id].status = Status(id)]_vars

(* C8: the status of an experiment changes only along                          *)
(* draft -> running -> completed -> promoted | rolled_back.                    *)
Forward ==
    {<<DRAFT, RUNNING>>, <<RUNNING, COMPLETED>>,
     <<COMPLETED, PROMOTED>>, <<COMPLETED, ROLLED_BACK>>}

C8_StatusOnlyForward ==
    [][\A id \in DOMAIN store :
          Tested(id) =>
             \/ store'[id].status = Status(id)
             \/ <<Status(id), store'[id].status>> \in Forward]_vars

(* C9: create assigns an id that no stored experiment has, so it never         *)
(* replaces an existing experiment.                                            *)
C9_CreateAssignsFreshId ==
    [][\A p \in Procs, n \in Names, c \in Controls, tr \in Treatments :
          (CreateExperiment(p, n, c, tr) /\ c # tr)
             => ~Found(ExperimentId(now, c, tr))]_vars

(* C10: the Experiment that create returns and the record it stores have       *)
(* status draft, created_at set to the time of the call, started_at and        *)
(* ended_at null, both counters zero, and winner and conclusion null.          *)
FreshDraft(r) ==
    /\ r.status = DRAFT
    /\ r.created_at \in 0..now
    /\ r.started_at = None /\ r.ended_at = None
    /\ r.control_requests = 0 /\ r.treatment_requests = 0
    /\ r.winner = None /\ r.conclusion = None

C10_CreatedIsFreshDraft ==
    ret.op = "create" =>
        /\ FreshDraft(ret.exp)
        /\ ret.id \in DOMAIN store
        /\ FreshDraft(store[ret.id])
        /\ store[ret.id].created_at = ret.exp.created_at
        /\ store[ret.id].experiment_id = ret.exp.experiment_id

C10_Witness ==
    /\ ret.op = "create" /\ ret.id \in DOMAIN store
    /\ store[ret.id].created_at = 1

(* C11: create rejects equal control and treatment versions and stores         *)
(* nothing, so no stored experiment has control_version equal to               *)
(* treatment_version.                                                          *)
C11_NoEqualVersions ==
    \A id \in DOMAIN store :
        Found(id) => store[id].control_version # store[id].treatment_version

(* C12: control_requests and treatment_requests of an existing experiment      *)
(* never decrease, and change only in the write of a record_request call.      *)
Counters(item) ==
    <<Attr(item, "control_requests", 0), Attr(item, "treatment_requests", 0)>>

C12_CountersOnlyByRecord ==
    [][\A id \in DOMAIN store :
          Tested(id) =>
             /\ id \in DOMAIN store'
             /\ Counters(store'[id])[1] >= Counters(store[id])[1]
             /\ Counters(store'[id])[2] >= Counters(store[id])[2]
             /\ Counters(store'[id]) # Counters(store[id])
                   => \E p \in Procs : RecordWrite(p) /\ pend[p].id = id]_vars

(* C13: record_request on an existing experiment, whatever its status, adds    *)
(* exactly 1 to control_requests when version is the control version and       *)
(* exactly 1 to treatment_requests for every other version, and changes no     *)
(* other attribute of the record.                                              *)
C13_RecordIncrementsOneCounter ==
    [][/\ \A p \in Procs, id \in Ids, v \in RequestVersions :
             (RecordRead(p, id, v) /\ Found(id)) =>
                /\ pend'[p].op = "record" /\ pend'[p].id = id
                /\ pend'[p].field = IF v = store[id].control_version
                                    THEN "control_requests"
                                    ELSE "treatment_requests"
                /\ store' = store
       /\ \A p \in Procs :
             RecordWrite(p) =>
                LET id == pend[p].id
                    field == pend[p].field
                IN /\ ret'.val = "None"
                   /\ DOMAIN store'[id] = DOMAIN store[id]
                   /\ store'[id][field] = store[id][field] + 1
                   /\ \A a \in DOMAIN store[id] \ {field} :
                         store'[id][a] = store[id][a]]_vars

C13_Witness ==
    /\ ret.op = "record" /\ ret.val = "None" /\ Found(ret.id)
    /\ Status(ret.id) = COMPLETED
    /\ store[ret.id].control_requests = 1
    /\ store[ret.id].treatment_requests = 1

(* C14: a draft experiment has started_at, ended_at, winner and conclusion     *)
(* null; a running experiment has started_at set and ended_at, winner and      *)
(* conclusion null; an experiment with ended_at set has started_at set.        *)
C14_ResultFieldsNullUntilTransition ==
    \A id \in DOMAIN store :
        Tested(id) =>
           LET e == GetExperiment(id)
           IN /\ e.status = DRAFT =>
                    /\ e.started_at = None /\ e.ended_at = None
                    /\ e.winner = None /\ e.conclusion = None
              /\ e.status = RUNNING =>
                    /\ e.started_at # None /\ e.ended_at = None
                    /\ e.winner = None /\ e.conclusion = None
              /\ e.ended_at # None => e.started_at # None

(* C15: experiment_id, name, description, control_version and                  *)
(* treatment_version of a stored experiment are never changed by a later       *)
(* call.                                                                       *)
Identity(item) ==
    <<item.experiment_id, item.name, item.description,
      item.control_version, item.treatment_version>>

C15_IdentityImmutable ==
    [][\A id \in DOMAIN store :
          Tested(id) =>
             /\ id \in DOMAIN store'
             /\ Identity(store'[id]) = Identity(store[id])]_vars

(***************************************************************************)
(* Two experiments side by side.  The table holds the two experiments that *)
(* two create calls with different version pairs have stored, and callers  *)
(* start, record, complete and promote either of them in any interleaving. *)
(***************************************************************************)
PairOne == NewExperiment("n1", "v1", "v2", 0)
PairTwo == NewExperiment("n2", "v2", "v1", 0)
PairIds == {PairOne.experiment_id, PairTwo.experiment_id}
PairWinners == {"v1"}

InitPair ==
    /\ store = PutItem(PutItem(<< >>, ExperimentToItem(PairOne)),
                       ExperimentToItem(PairTwo))
    /\ now = 0
    /\ pend = [p \in Procs |-> NoCall]
    /\ ret = Ret("create", PairTwo.experiment_id, "Experiment", PairTwo)
    /\ recorded = [id \in PairIds |-> ZeroCount]
    /\ results = << >>

NextPair ==
    \/ \E p \in Procs, id \in PairIds : StartRead(p, id)
    \/ \E p \in Procs : StartWrite(p)
    \/ \E p \in Procs, id \in PairIds, v \in Versions : RecordRead(p, id, v)
    \/ \E p \in Procs : RecordWrite(p)
    \/ \E p \in Procs, id \in PairIds, w \in PairWinners, c \in Conclusions :
          CompleteExperiment(p, id, w, c)
    \/ \E p \in Procs, id \in PairIds : PromoteTreatment(p, id)

SpecPair == InitPair /\ [][NextPair]_vars

(* C16: a start, record_request, complete or promote addressed to one          *)
(* experiment leaves the stored record of every other experiment unchanged,    *)
(* whatever calls on the other experiment are in progress.                     *)
Others(id) == DOMAIN store \ {id}

OthersUnchanged(id) ==
    /\ Others(id) \subseteq DOMAIN store'
    /\ \A b \in Others(id) : store'[b] = store[b]

C16_ExperimentsIndependent ==
    [][/\ \A p \in Procs, id \in PairIds :
             (\/ StartRead(p, id)
              \/ PromoteTreatment(p, id)
              \/ \E v \in Versions : RecordRead(p, id, v)
              \/ \E w \in PairWinners, c \in Conclusions :
                    CompleteExperiment(p, id, w, c))
                => OthersUnchanged(id)
       /\ \A p \in Procs :
             (StartWrite(p) \/ RecordWrite(p)) => OthersUnchanged(pend[p].id)]_vars

C16_Witness ==
    /\ \A id \in PairIds : Status(id) = PROMOTED /\ store[id].control_requests = 1
    /\ \E p \in Procs : pend[p].op = "record"

(***************************************************************************)
(* The extraction pipeline over the results table.                         *)
(*                                                                         *)
(* An upload stores the metadata item of a new document; an extraction     *)
(* call marks the item processing, calls the model, and then stores either *)
(* the extraction (status completed) or the error (status failed) with one *)
(* update_item each.  Other calls may run between the two updates.         *)
(***************************************************************************)
MaxDocs == 2

UPLOADED == "uploaded"
PROCESSING == "processing"
FAILED == "failed"

(* DocumentStatus.COMPLETED is the string "completed", as COMPLETED above *)
DocumentStatus == {UPLOADED, PROCESSING, COMPLETED, FAILED}

(* uuid4: the n-th document uploaded gets an id no other document has *)
DocumentId(n) == <<"doc", n>>

DocumentIds == {DocumentId(n) : n \in 1..MaxDocs}

PromptVersions == Versions

(* What the model call returns: the parsed extraction and the token usage *)
SchemaFields ==
    {"patient_name", "date_of_birth", "diagnoses", "medications", "lab_values",
     "procedures", "allergies", "vital_signs", "notes"}

(* A field value is a tag: "None", "", "[]" and "{}" stand for null, the     *)
(* empty string, the empty list and the empty dict; any other tag is a value  *)
(* that Python treats as true                                                 *)
Falsy == {"None", "", "[]", "{}"}

Extractions ==
    {[patient_name |-> "p1", diagnoses |-> "list", medications |-> "[]"]}

TokenUsages == {[input_tokens |-> 1000, output_tokens |-> 500]}

ModelId == "anthropic.claude-3-haiku-20240307-v1:0"

(* update_item on the results table: the key attribute is document_id *)
UpdateResult(tbl, id, sets) ==
    IF id \in DOMAIN tbl
    THEN (id :> (sets @@ tbl[id])) @@ tbl
    ELSE (id :> (sets @@ [document_id |-> id])) @@ tbl

(* the item the upload handler stores for a document uploaded at time t *)
Metadata(id, t) ==
    [document_id |-> id,
     filename |-> "f.txt",
     s3_key |-> <<"documents", id>>,
     status |-> UPLOADED,
     uploaded_at |-> t,
     file_size_bytes |-> 1]

(* upload handler: put_item of the metadata of a new document *)
Upload(p) ==
    LET id == DocumentId(Cardinality(DOMAIN results) + 1)
    IN /\ pend[p].op = "idle"
       /\ Cardinality(DOMAIN results) < MaxDocs
       /\ results' = (id :> Metadata(id, now)) @@ results
       /\ ret' = Ret("upload", id, "200", NoExperiment)
       /\ UNCHANGED <<store, now, pend, recorded>>

(* extract handler up to its first update: get_item, then status processing *)
ExtractBegin(p, id, prompt_version) ==
    /\ pend[p].op = "idle"
    /\ IF id \notin DOMAIN results
       THEN /\ ret' = Ret("extract", id, "404", NoExperiment)
            /\ UNCHANGED <<results, pend>>
       ELSE IF "s3_key" \notin DOMAIN results[id]
       THEN /\ ret' = Ret("extract", id, "400", NoExperiment)
            /\ UNCHANGED <<results, pend>>
       ELSE /\ results' = UpdateResult(results, id, [status |-> PROCESSING])
            /\ pend' = [pend EXCEPT ![p] =
                           [op |-> "extract", id |-> id,
                            prompt_version |-> prompt_version,
                            start_time |-> now]]
            /\ ret' = Ret("extract", id, "pending", NoExperiment)
    /\ UNCHANGED <<store, now, recorded>>

(* int((time.time() - start_time) * 1000) *)
ProcessingTimeMs(start_time, t) == ((t - start_time) * 1000) \div TicksPerSecond

(* the attributes the extract handler sets when the model call succeeded *)
CompletedAttrs(prompt_version, medical_data, token_usage, start_time, t) ==
    [medical_data |-> medical_data,
     status |-> COMPLETED,
     model_id |-> ModelId,
     prompt_version |-> prompt_version,
     processing_time_ms |-> ProcessingTimeMs(start_time, t),
     extracted_at |-> t,
     token_usage |-> token_usage]

ExtractSucceed(p, medical_data, token_usage) ==
    /\ pend[p].op = "extract"
    /\ results' = UpdateResult(results, pend[p].id,
                     CompletedAttrs(pend[p].prompt_version, medical_data,
                                    token_usage, pend[p].start_time, now))
    /\ pend' = [pend EXCEPT ![p] = NoCall]
    /\ ret' = Ret("extract", pend[p].id, "200", NoExperiment)
    /\ UNCHANGED <<store, now, recorded>>

(* the attributes the extract handler sets when S3 or the model call raised *)
FailedAttrs(start_time, t) ==
    [status |-> FAILED,
     error_message |-> "error",
     processing_time_ms |-> ProcessingTimeMs(start_time, t)]

ExtractFail(p) ==
    /\ pend[p].op = "extract"
    /\ results' = UpdateResult(results, pend[p].id,
                               FailedAttrs(pend[p].start_time, now))
    /\ pend' = [pend EXCEPT ![p] = NoCall]
    /\ ret' = Ret("extract", pend[p].id, "500", NoExperiment)
    /\ UNCHANGED <<store, now, recorded>>

(***************************************************************************)
(* The metrics service.  Amounts are fixed-point integers:                 *)
(*   rates and percentages in hundredths of a percent (round(x, 2)),       *)
(*   average times in hundredths of a millisecond (round(x, 2)),           *)
(*   costs in millionths of a dollar (round(x, 6)), token prices in        *)
(*   hundred-millionths of a dollar per token.                             *)
(***************************************************************************)

(* round() of the quotient a / b of integers, b > 0: to the nearest integer, *)
(* a tie to the even one                                                      *)
RoundDiv(a, b) ==
    LET q == a \div b
        r == a % b
    IN IF 2 * r < b THEN q
       ELSE IF 2 * r > b THEN q + 1
       ELSE IF q % 2 = 0 THEN q ELSE q + 1

INPUT_TOKEN_PRICE == 25
OUTPUT_TOKEN_PRICE == 125

(* A variant that prices both kinds of token as input tokens *)
CalculateCostFlat(input_tokens, output_tokens, tie_up) ==
    RoundDiv((input_tokens + output_tokens) * INPUT_TOKEN_PRICE, 100)

(* calculate_cost, in millionths of a dollar: round(input_cost + output_cost, *)
(* 6).  The sum is a double; where its decimal value lies exactly halfway     *)
(* between two millionths the double lies above or below it, depending on     *)
(* the binary rounding of the two products (2 output tokens give 0.000003,    *)
(* 5 input and 1 output tokens give 0.000002), and tie_up says which.         *)
CalculateCost(input_tokens, output_tokens, tie_up) ==
    LET sum == input_tokens * INPUT_TOKEN_PRICE + output_tokens * OUTPUT_TOKEN_PRICE
        q == sum \div 100
        r == sum % 100
    IN IF 2 * r < 100 THEN q
       ELSE IF 2 * r > 100 THEN q + 1
       ELSE IF tie_up THEN q + 1 ELSE q

total_fields == 9

(* A variant that counts every key that is present *)
PopulatedIfPresent(medical_data, f) == f \in DOMAIN medical_data

Populated(medical_data, f) ==
    f \in DOMAIN medical_data /\ medical_data[f] \notin Falsy

(* calculate_field_completeness: <<completeness, populated_fields>> *)
CalculateFieldCompleteness(medical_data) ==
    IF DOMAIN medical_data = {}
    THEN <<0, 0>>
    ELSE LET populated_fields ==
                 Cardinality({f \in SchemaFields : Populated(medical_data, f)})
         IN <<RoundDiv(populated_fields * 10000, total_fields), populated_fields>>

(* Sum, least and greatest value of a function with integer values *)
Min(S) == CHOOSE x \in S : \A y \in S : x <= y
Max(S) == CHOOSE x \in S : \A y \in S : x >= y

(* The sum of the values of f that lie in lo..hi, halving the interval so   *)
(* that the depth of the recursion does not grow with the number of values  *)
RECURSIVE SumBetween(_, _, _)
SumBetween(f, lo, hi) ==
    LET within == {x \in DOMAIN f : lo <= f[x] /\ f[x] <= hi}
    IN IF within = {} THEN 0
       ELSE IF lo = hi THEN lo * Cardinality(within)
       ELSE LET mid == (lo + hi) \div 2
            IN SumBetween(f, lo, mid) + SumBetween(f, mid + 1, hi)

Sum(f) ==
    IF DOMAIN f = {} THEN 0
    ELSE LET values == {f[x] : x \in DOMAIN f}
         IN SumBetween(f, Min(values), Max(values))

(* sorted(): the values of f in ascending order, as a sequence *)
RECURSIVE SortedBetween(_, _, _)
SortedBetween(f, lo, hi) ==
    LET within == {x \in DOMAIN f : lo <= f[x] /\ f[x] <= hi}
    IN IF within = {} THEN << >>
       ELSE IF lo = hi THEN [i \in 1..Cardinality(within) |-> lo]
       ELSE LET mid == (lo + hi) \div 2
            IN SortedBetween(f, lo, mid) \o SortedBetween(f, mid + 1, hi)

Sorted(f) ==
    IF DOMAIN f = {} THEN << >>
    ELSE LET values == {f[x] : x \in DOMAIN f}
         IN SortedBetween(f, Min(values), Max(values))

(* A variant that rounds the rank up *)
PercentileIndexCeil(len, pct) == (len * pct + 99) \div 100

(* A variant that counts the rank from the top *)
PercentileIndexFromTop(len, pct) == (len * (100 - pct)) \div 100

(* int(len * 0.50), int(len * 0.95), int(len * 0.99) *)
PercentileIndex(len, pct) == (len * pct) \div 100

(* The trailing window of get_prompt_metrics *)
DefaultWindowDays == 7
SecondsPerDay == 86400
Window == DefaultWindowDays * SecondsPerDay * TicksPerSecond

(* What table.scan returned: an error, or the items of its first page *)
ScanError == [error |-> TRUE, page |-> {}]
ScanPage(ids) == [error |-> FALSE, page |-> ids]
ScanAll(tbl) == ScanPage(DOMAIN tbl)
ScanOutcomes(tbl) == {ScanError} \cup {ScanPage(ids) : ids \in SUBSET DOMAIN tbl}

NoMetrics == [none |-> TRUE]
IsNone(m) == "none" \in DOMAIN m

(* an item passes the date filter *)
InWindow(item, start_date, end_date) ==
    /\ "extracted_at" \in DOMAIN item
    /\ start_date <= item.extracted_at
    /\ item.extracted_at <= end_date

EndDate(end_date, t) == IF end_date = None THEN t ELSE end_date[1]
StartDate(start_date, end) == IF start_date = None THEN end - Window ELSE start_date[1]

(* get_prompt_metrics: the summary, or NoMetrics where the code returns None. *)
(* t is the time of the call and scan what table.scan returned.  Every token *)
(* usage of TokenUsages and ArmUsages costs a whole number of millionths, so *)
(* total_cost is never at a halfway case.                                     *)
GetPromptMetrics(tbl, prompt_version, start_date, end_date, t, scan) ==
    LET end == EndDate(end_date, t)
        start == StartDate(start_date, end)
        items == {id \in scan.page :
                     /\ "prompt_version" \in DOMAIN tbl[id]
                     /\ tbl[id].prompt_version = prompt_version}
        filtered_items == {id \in items : InWindow(tbl[id], start, end)}
        successful == {id \in filtered_items : Attr(tbl[id], "status", "") = COMPLETED}
        failed == {id \in filtered_items : Attr(tbl[id], "status", "") = FAILED}
        processing_times ==
            [id \in {i \in successful : "processing_time_ms" \in DOMAIN tbl[i]}
                |-> tbl[id].processing_time_ms]
        with_usage == {id \in successful : "token_usage" \in DOMAIN tbl[id]}
        input_tokens == [id \in with_usage |-> Attr(tbl[id].token_usage, "input_tokens", 0)]
        output_tokens == [id \in with_usage |-> Attr(tbl[id].token_usage, "output_tokens", 0)]
        with_data == {id \in successful : "medical_data" \in DOMAIN tbl[id]}
        completeness_scores ==
            [id \in with_data |-> CalculateFieldCompleteness(tbl[id].medical_data)[1]]
        fields_extracted ==
            [id \in with_data |-> CalculateFieldCompleteness(tbl[id].medical_data)[2]]
        processing_times_sorted ==
            IF DOMAIN processing_times # {} THEN Sorted(processing_times) ELSE <<0>>
        len == Len(processing_times_sorted)
        p50_idx == PercentileIndex(len, 50)
        p95_idx == PercentileIndex(len, 95)
        p99_idx == PercentileIndex(len, 99)
        total_input == Sum(input_tokens)
        total_output == Sum(output_tokens)
        total_cost == CalculateCost(total_input, total_output, FALSE)
        dates == {tbl[id].extracted_at : id \in filtered_items}
    IN IF scan.error THEN NoMetrics
       ELSE IF items = {} THEN NoMetrics
       ELSE IF filtered_items = {} THEN NoMetrics
       ELSE IF \E i \in {p50_idx, p95_idx, p99_idx} : i >= len THEN NoMetrics
       ELSE [prompt_version |-> prompt_version,
             total_requests |-> Cardinality(filtered_items),
             successful_requests |-> Cardinality(successful),
             failed_requests |-> Cardinality(failed),
             success_rate |->
                 RoundDiv(Cardinality(successful) * 10000, Cardinality(filtered_items)),
             avg_processing_time_ms |->
                 IF DOMAIN processing_times # {}
                 THEN RoundDiv(Sum(processing_times) * 100,
                               Cardinality(DOMAIN processing_times))
                 ELSE 0,
             p50_processing_time_ms |-> processing_times_sorted[p50_idx + 1],
             p95_processing_time_ms |-> processing_times_sorted[p95_idx + 1],
             p99_processing_time_ms |-> processing_times_sorted[p99_idx + 1],
             total_input_tokens |-> total_input,
             total_output_tokens |-> total_output,
             total_cost_usd |-> RoundDiv(total_cost, 100),
             avg_cost_per_request |->
                 IF successful # {}
                 THEN RoundDiv(total_cost, Cardinality(successful)) ELSE 0,
             avg_field_completeness |->
                 IF with_data # {}
                 THEN RoundDiv(Sum(completeness_scores), Cardinality(with_data)) ELSE 0,
             avg_fields_extracted |->
                 IF with_data # {}
                 THEN RoundDiv(Sum(fields_extracted) * 100, Cardinality(with_data))
                 ELSE 0,
             first_request |-> Min(dates),
             last_request |-> Max(dates)]

(* A metrics call that stamps every record it read, as a reader that keeps   *)
(* a last-read mark in the table would                                       *)
GetPromptMetricsCallStamping(p, prompt_version, scan) ==
    LET metrics == GetPromptMetrics(results, prompt_version, None, None, now, scan)
    IN /\ pend[p].op = "idle"
       /\ ret' = Ret("metrics", <<prompt_version, now>>,
                     IF IsNone(metrics) THEN "None" ELSE "PromptMetrics", metrics)
       /\ results' = [id \in DOMAIN results |->
                         [last_read |-> now] @@ results[id]]
       /\ UNCHANGED <<store, now, pend, recorded>>

(* GET /metrics/prompts/{prompt_version}: the service is called with the     *)
(* version only, so the window is the default one.  ret.id holds the version  *)
(* asked for and the time of the call.                                        *)
GetPromptMetricsCall(p, prompt_version, scan) ==
    LET metrics == GetPromptMetrics(results, prompt_version, None, None, now, scan)
    IN /\ pend[p].op = "idle"
       /\ ret' = Ret("metrics", <<prompt_version, now>>,
                     IF IsNone(metrics) THEN "None" ELSE "PromptMetrics", metrics)
       /\ UNCHANGED <<store, now, pend, recorded, results>>

(* Time passes: a whole window, while no extraction call is in progress *)
PassWindow ==
    /\ now <= MaxClock
    /\ \A p \in Procs : pend[p].op = "idle"
    /\ now' = now + Window
    /\ UNCHANGED <<store, pend, ret, recorded, results>>

NextMetrics ==
    \/ Tick
    \/ PassWindow
    \/ \E p \in Procs : Upload(p)
    \/ \E p \in Procs, id \in DocumentIds, v \in PromptVersions : ExtractBegin(p, id, v)
    \/ \E p \in Procs, m \in Extractions, u \in TokenUsages : ExtractSucceed(p, m, u)
    \/ \E p \in Procs : ExtractFail(p)
    \/ \E p \in Procs, v \in PromptVersions, scan \in ScanOutcomes(results) :
          GetPromptMetricsCall(p, v, scan)

SpecMetrics == Init /\ [][NextMetrics]_vars

(* The metrics call that ret describes: its version, its time, and the stored *)
(* records of that version whose extracted_at lies in the window of the call  *)
MetricsReturned == ret.op = "metrics" /\ ret.val = "PromptMetrics"
AskedVersion == ret.id[1]
AskedAt == ret.id[2]

RecordsInWindow ==
    {id \in DOMAIN results :
        /\ "prompt_version" \in DOMAIN results[id]
        /\ results[id].prompt_version = AskedVersion
        /\ "extracted_at" \in DOMAIN results[id]
        /\ AskedAt - Window <= results[id].extracted_at
        /\ results[id].extracted_at <= AskedAt}

(* C17: every summary get_prompt_metrics returns has                           *)
(* total_requests = successful_requests + failed_requests, also when stored    *)
(* records of the version are in status uploaded or processing.                *)
C17_TotalIsSuccessfulPlusFailed ==
    MetricsReturned =>
        ret.exp.total_requests =
            ret.exp.successful_requests + ret.exp.failed_requests

(* C18: when the summary covers at least one successful record, p50 <= p95 <=  *)
(* p99 and each of the three is the latency of a successful record of the      *)
(* version in the window.                                                      *)
SuccessfulLatencies ==
    {results[id].processing_time_ms :
        id \in {i \in RecordsInWindow : results[i].status = COMPLETED}}

C19_NotFoundIffNoRecordInWindow ==
    ret.op = "metrics" =>
        /\ ret.val = "None" <=> RecordsInWindow = {}
        /\ (/\ RecordsInWindow # {}
            /\ \A id \in RecordsInWindow : results[id].status = FAILED)
              => /\ ret.val = "PromptMetrics"
                 /\ ret.exp.total_requests > 0
                 /\ ret.exp.success_rate = 0


(***************************************************************************)
(* compare_prompts.  The success rates are doubles: round(x, 2) gives the  *)
(* double nearest to k/100 for a rate of k hundredths, and the delta is    *)
(* the IEEE-754 difference of two such doubles, rounded to nearest.        *)
(***************************************************************************)
RECURSIVE Pow2(_)
Pow2(n) == IF n = 0 THEN 1 ELSE 2 * Pow2(n - 1)

RECURSIVE Pow2Mod(_, _)
Pow2Mod(n, m) == IF n = 0 THEN 1 % m ELSE (2 * Pow2Mod(n - 1, m)) % m

(* The double nearest to k/100 (0 < k <= 10000) is M * 2^-s with           *)
(* 2^52 <= M < 2^53; DoubleScale(k) is s: 46 when 64 <= k/100 < 128, one    *)
(* more for every halving of k/100                                          *)
RECURSIVE Halvings(_, _)
Halvings(k, i) == IF k * Pow2(i) >= 6400 THEN i ELSE Halvings(k, i + 1)

DoubleScale(k) == 46 + Halvings(k, 0)

(* 100 * (double nearest to k/100 - k/100), in units of 2^-DoubleScale(k):  *)
(* M is k * 2^s / 100 rounded to the nearest integer (the remainder is a    *)
(* multiple of 4, so there is no tie)                                       *)
DoubleError(k) ==
    IF k = 0 THEN 0
    ELSE LET m == (k * Pow2Mod(DoubleScale(k), 100)) % 100
         IN IF m < 50 THEN 0 - m ELSE 100 - m

(* 100 * 2^59 * ((double of a/100 - double of b/100) - (a - b)/100) *)
DoubleExcess(a, b) ==
    (IF a = 0 THEN 0 ELSE DoubleError(a) * Pow2(59 - DoubleScale(a)))
    - (IF b = 0 THEN 0 ELSE DoubleError(b) * Pow2(59 - DoubleScale(b)))

(* abs(treatment_rate - control_rate) > 5.0 on doubles.  Doubles between 4  *)
(* and 8 are 2^-50 apart and 5.0 has an even mantissa, so a difference       *)
(* whose decimal value is exactly 5.00 rounds to more than 5.0 when the      *)
(* operands' errors add up to more than 2^-51                                *)
AbsDeltaAbove5(treatment_rate, control_rate) ==
    LET d == treatment_rate - control_rate
    IN IF d > 500 \/ d < 0 - 500 THEN TRUE
       ELSE IF d = 500
       THEN DoubleExcess(treatment_rate, control_rate) > 100 * Pow2(8)
       ELSE IF d = 0 - 500
       THEN DoubleExcess(control_rate, treatment_rate) > 100 * Pow2(8)
       ELSE FALSE

(* The average costs are doubles too: round(x, 6) gives the double nearest  *)
(* to k/10^6 for a cost of k millionths (0 < k < 10^6), which is M * 2^-s   *)
(* with 2^52 <= M < 2^53; CostScale(k) is s                                 *)
RECURSIVE Doublings(_, _)
Doublings(k, i) == IF k * Pow2(i) >= 1000000 THEN i ELSE Doublings(k, i + 1)

CostScale(k) == 52 + Doublings(k, 0)

(* 15625 * (M - k * 2^s / 10^6): M is k * 2^(s-6) / 15625 rounded to the     *)
(* nearest integer                                                          *)
CostError(k) ==
    LET m == (k * Pow2Mod(CostScale(k) - 6, 15625)) % 15625
    IN IF 2 * m < 15625 THEN 0 - m ELSE 15625 - m

(* cost_delta / control_cost * 100 < 20 on doubles, control_cost > 0.  Off   *)
(* the boundary the doubles agree with the exact quotient.  Where the exact  *)
(* quotient is 20 (5 * treatment = 6 * control) the subtraction is exact,    *)
(* the division rounds to a double near 0.2 and its product with 100 is     *)
(* below 20 when that double is at least two steps of 2^-55 below the       *)
(* double of 0.2, that is when                                               *)
(*   5 * treatment <= (6 - 5.5 * 2^-55) * control   on the doubles.          *)
CostDeltaPctBelow20(treatment_cost, control_cost) ==
    IF 5 * treatment_cost # 6 * control_cost
    THEN 5 * (treatment_cost - control_cost) < control_cost
    ELSE LET sc == CostScale(control_cost)
             st == CostScale(treatment_cost)
             lhs == 5 * CostError(treatment_cost) * Pow2(sc - st)
             rhs == 6 * CostError(control_cost)
             l == IF sc >= 62 THEN lhs ELSE lhs * Pow2(62 - sc)
             r == IF sc >= 62 THEN rhs - 11 * control_cost * Pow2(sc - 62)
                  ELSE rhs * Pow2(62 - sc) - 11 * control_cost
         IN IF l = r THEN CostError(control_cost) <= 0 ELSE l < r

(* A variant that returns the ratio as a fraction, not as a percentage *)
CostDeltaRatio(cost_delta, control_cost) ==
    IF control_cost > 0 THEN RoundDiv(cost_delta * 100, control_cost) ELSE 0

(* cost_delta_pct, rounded to two decimals as the result holds it *)
CostDeltaPct(cost_delta, control_cost) ==
    IF control_cost > 0 THEN RoundDiv(cost_delta * 10000, control_cost) ELSE 0

(* the recommendation: the word its text starts with.  better is            *)
(* success_rate_delta > 0, cost_below_20 is cost_delta_pct < 20              *)
Recommendation(is_significant, better, cost_below_20) ==
    IF is_significant
    THEN IF better /\ cost_below_20 THEN "PROMOTE"
         ELSE IF better /\ ~cost_below_20 THEN "REVIEW"
         ELSE "KEEP CONTROL"
    ELSE "INSUFFICIENT DATA"

min_sample_size == 30

Abs(x) == IF x < 0 THEN 0 - x ELSE x

NoResult == [none |-> TRUE]

(* compare_prompts: the ExperimentResult, or NoResult where the code        *)
(* returns None.  The two get_prompt_metrics calls scan the table one after  *)
(* the other; the recommendation is the word its text starts with.           *)
ComparePrompts(tbl, control_version, treatment_version, confidence_level, t, control_scan, treatment_scan) ==
    LET control_metrics ==
            GetPromptMetrics(tbl, control_version, None, None, t, control_scan)
        treatment_metrics ==
            GetPromptMetrics(tbl, treatment_version, None, None, t, treatment_scan)
        success_rate_delta ==
            treatment_metrics.success_rate - control_metrics.success_rate
        time_delta ==
            treatment_metrics.avg_processing_time_ms
                - control_metrics.avg_processing_time_ms
        cost_delta ==
            treatment_metrics.avg_cost_per_request
                - control_metrics.avg_cost_per_request
        cost_delta_pct ==
            CostDeltaPct(cost_delta, control_metrics.avg_cost_per_request)
        cost_below_20 ==
            IF control_metrics.avg_cost_per_request > 0
            THEN CostDeltaPctBelow20(treatment_metrics.avg_cost_per_request,
                                     control_metrics.avg_cost_per_request)
            ELSE TRUE
        is_significant ==
            /\ control_metrics.total_requests >= min_sample_size
            /\ treatment_metrics.total_requests >= min_sample_size
            /\ AbsDeltaAbove5(treatment_metrics.success_rate,
                              control_metrics.success_rate)
        recommendation ==
            Recommendation(is_significant, success_rate_delta > 0, cost_below_20)
    IN IF IsNone(control_metrics) \/ IsNone(treatment_metrics) THEN NoResult
       ELSE [control_version |-> control_version,
             treatment_version |-> treatment_version,
             control_n |-> control_metrics.total_requests,
             treatment_n |-> treatment_metrics.total_requests,
             control_success_rate |-> control_metrics.success_rate,
             treatment_success_rate |-> treatment_metrics.success_rate,
             success_rate_delta |-> success_rate_delta,
             success_rate_p_value |-> 5,
             control_avg_time |-> control_metrics.avg_processing_time_ms,
             treatment_avg_time |-> treatment_metrics.avg_processing_time_ms,
             time_delta_ms |-> time_delta,
             time_p_value |-> 5,
             control_avg_cost |-> control_metrics.avg_cost_per_request,
             treatment_avg_cost |-> treatment_metrics.avg_cost_per_request,
             cost_delta_usd |-> cost_delta,
             cost_delta_pct |-> cost_delta_pct,
             is_significant |-> is_significant,
             confidence_level |-> confidence_level,
             recommendation |-> recommendation]

(* A comparison that lets the verdict stand only at a confidence level of   *)
(* 95% or more                                                               *)
ComparePromptsCallByLevel(p, control_version, treatment_version, confidence_level, control_scan, treatment_scan) ==
    LET result == ComparePrompts(results, control_version, treatment_version,
                                 confidence_level, now, control_scan, treatment_scan)
        levelled ==
            IF IsNone(result) \/ confidence_level >= 95 THEN result
            ELSE [result EXCEPT !.is_significant = FALSE,
                                !.recommendation = "INSUFFICIENT DATA"]
    IN /\ pend[p].op = "idle"
       /\ ret' = Ret("compare", <<control_version, treatment_version, now>>,
                     IF IsNone(levelled) THEN "None" ELSE "ExperimentResult", levelled)
       /\ UNCHANGED <<store, now, pend, recorded, results>>

(* POST /metrics/compare.  ret.id holds the two versions and the time *)
ComparePromptsCall(p, control_version, treatment_version, confidence_level, control_scan, treatment_scan) ==
    LET result == ComparePrompts(results, control_version, treatment_version,
                                 confidence_level, now, control_scan, treatment_scan)
    IN /\ pend[p].op = "idle"
       /\ ret' = Ret("compare", <<control_version, treatment_version, now>>,
                     IF IsNone(result) THEN "None" ELSE "ExperimentResult", result)
       /\ UNCHANGED <<store, now, pend, recorded, results>>

(* The Lambda metrics handler on POST .../compare: it answers 400 when the   *)
(* two versions are equal and calls compare_prompts otherwise                *)
LambdaCompareCall(p, control_version, treatment_version, confidence_level, control_scan, treatment_scan) ==
    IF control_version = treatment_version
    THEN /\ pend[p].op = "idle"
         /\ ret' = Ret("compare", <<control_version, treatment_version, now>>,
                       "ValidationError", NoResult)
         /\ UNCHANGED <<store, now, pend, recorded, results>>
    ELSE ComparePromptsCall(p, control_version, treatment_version,
                            confidence_level, control_scan, treatment_scan)

(* Tables the pipeline builds: every document of an arm was uploaded and     *)
(* extracted with the arm's version at time 0; the failed ones were then     *)
(* extracted again and that call failed                                      *)
CompletedRecord(id, prompt_version, token_usage) ==
    CompletedAttrs(prompt_version, CHOOSE m \in Extractions : TRUE,
                   token_usage, 0, 0) @@ Metadata(id, 0)

FailedRecord(id, prompt_version, token_usage) ==
    FailedAttrs(0, 0) @@ CompletedRecord(id, prompt_version, token_usage)

ArmRecords(first, completed, failed, prompt_version, token_usage) ==
    [id \in {DocumentId(n) : n \in (first + 1)..(first + completed + failed)} |->
        IF id[2] <= first + completed
        THEN CompletedRecord(id, prompt_version, token_usage)
        ELSE FailedRecord(id, prompt_version, token_usage)]

(* <<completed, failed>> of an arm: 25, 30, 36, 40 and 45 documents *)
ArmShapes == {<<5, 20>>, <<0, 30>>, <<11, 25>>, <<38, 2>>, <<16, 29>>}

(* token usage of the calls of an arm: the usual one, and ones that cost     *)
(* 20% and 40% more                                                          *)
BaseUsage == CHOOSE u \in TokenUsages : TRUE
ArmUsages ==
    {BaseUsage,
     [input_tokens |-> 1200, output_tokens |-> 600],
     [input_tokens |-> 1400, output_tokens |-> 700]}

ConfidenceLevels == {90, 95}

InitCompare ==
    /\ store = << >>
    /\ now = 0
    /\ pend = [p \in Procs |-> NoCall]
    /\ recorded = << >>
    /\ \E a \in ArmShapes, b \in ArmShapes, u \in ArmUsages :
          /\ results = ArmRecords(0, a[1], a[2], "v1", BaseUsage)
                         @@ ArmRecords(a[1] + a[2], b[1], b[2], "v2", u)
          /\ ret = Ret("extract", DocumentId(a[1] + a[2] + b[1] + b[2]),
                       IF b[2] > 0 THEN "500" ELSE "200", NoExperiment)

(* No call is ever in progress here, so one caller stands for all of them.   *)
CompareCaller == CHOOSE p \in Procs : TRUE

(* ret keeps the last call only and a call reads nothing of it, so the state *)
(* after a call does not depend on the calls before it.  After a first call  *)
(* the same comparison is asked again, which is where two successive answers *)
(* can be set side by side.                                                   *)
AsksAgain(control_version, treatment_version) ==
    ret.op = "compare" => ret.id = <<control_version, treatment_version, now>>

(* The Lambda handler adds nothing to compare_prompts but its check for      *)
(* equal versions, so the scans that fail are left to the direct call.       *)
NextCompare ==
    \/ \E c \in PromptVersions, v \in PromptVersions, l \in ConfidenceLevels,
          sc \in {ScanError, ScanAll(results)}, sv \in {ScanError, ScanAll(results)} :
          /\ AsksAgain(c, v)
          /\ ComparePromptsCall(CompareCaller, c, v, l, sc, sv)
    \/ \E c \in PromptVersions, v \in PromptVersions, l \in ConfidenceLevels :
          /\ AsksAgain(c, v)
          /\ LambdaCompareCall(CompareCaller, c, v, l, ScanAll(results), ScanAll(results))

SpecCompare == InitCompare /\ [][NextCompare]_vars

CompareReturned == ret.op = "compare" /\ ret.val = "ExperimentResult"

(* C20: compare_prompts sets is_significant exactly when both arms have at   *)
(* least 30 requests and the absolute success_rate_delta is above 5.0        *)
(* percentage points; with an arm below 30 it is false for every delta.      *)
C20_SignificantIffFloorAndDelta ==
    CompareReturned =>
        (ret.exp.is_significant <=>
            /\ ret.exp.control_n >= 30
            /\ ret.exp.treatment_n >= 30
            /\ Abs(ret.exp.success_rate_delta) > 500)


(* C21: the recommendation is the first match of: not significant ->          *)
(* INSUFFICIENT DATA; success_rate_delta > 0 and cost_delta_pct < 20 ->       *)
(* PROMOTE; success_rate_delta > 0 and cost_delta_pct >= 20 -> REVIEW;        *)
(* success_rate_delta <= 0 -> KEEP CONTROL.  cost_delta_pct is the quotient   *)
(* of the result's average costs, 0 when the control's is 0.                  *)
CostPctBelow20 ==
    IF ret.exp.control_avg_cost > 0
    THEN 5 * (ret.exp.treatment_avg_cost - ret.exp.control_avg_cost)
             < ret.exp.control_avg_cost
    ELSE TRUE

C21_RecommendationByFirstMatch ==
    CompareReturned =>
        ret.exp.recommendation =
            IF ~ret.exp.is_significant THEN "INSUFFICIENT DATA"
            ELSE IF ret.exp.success_rate_delta > 0 /\ CostPctBelow20 THEN "PROMOTE"
            ELSE IF ret.exp.success_rate_delta > 0 THEN "REVIEW"
            ELSE "KEEP CONTROL"


(* C22: a comparison whose control and treatment versions are equal is        *)
(* answered with a validation error, whichever entry path it came through.    *)
C22_EqualVersionsRejected ==
    (ret.op = "compare" /\ ret.id[1] = ret.id[2]) => ret.val = "ValidationError"


(* C23: cost_delta_usd is the difference of the two average costs;            *)
(* cost_delta_pct is cost_delta_usd / control_avg_cost * 100 (to the two      *)
(* decimals the result holds) when the control's average cost is positive     *)
(* and 0 when it is 0, in which case the comparison still returns a result.   *)
C23_CostDeltaPct ==
    CompareReturned =>
        /\ ret.exp.cost_delta_usd =
               ret.exp.treatment_avg_cost - ret.exp.control_avg_cost
        /\ IF ret.exp.control_avg_cost > 0
           THEN 2 * Abs(ret.exp.cost_delta_pct * ret.exp.control_avg_cost
                            - ret.exp.cost_delta_usd * 10000)
                    <= ret.exp.control_avg_cost
           ELSE ret.exp.cost_delta_pct = 0

C23_Witness ==
    /\ CompareReturned
    /\ ret.exp.control_avg_cost = 0
    /\ ret.exp.treatment_avg_cost > 0
    /\ ret.exp.cost_delta_usd = ret.exp.treatment_avg_cost
    /\ ret.exp.cost_delta_pct = 0


(***************************************************************************)
(* calculate_cost and calculate_field_completeness on their own: ret holds *)
(* the arguments of a call that was made (val "called"), drawn from a      *)
(* bounded set, and the step of the call replaces them by what it returns. *)
(***************************************************************************)
InputTokenCounts == {0, 1, 2, 3, 4, 5, 6, 1000, 1200, 1000000}
OutputTokenCounts == {0, 1, 2, 3, 5, 500, 600, 500000}

CalculateCostCall(tie_up) ==
    /\ ret.op = "cost" /\ ret.val = "called"
    /\ ret' = Ret("cost", ret.id, "float",
                  [cost |-> CalculateCost(ret.id[1], ret.id[2], tie_up)])
    /\ UNCHANGED <<store, now, pend, recorded, results>>

(* Extractions as the schema types them: the names and notes are strings or   *)
(* null, the lab values and vital signs are dicts, the others are lists.      *)
(* "value" stands for any non-empty string, list or dict.                     *)
EmptyOf(f) ==
    IF f \in {"patient_name", "date_of_birth", "notes"} THEN ""
    ELSE IF f \in {"lab_values", "vital_signs"} THEN "{}"
    ELSE "[]"

(* every field present, each null, empty or a value *)
FullRecords ==
    {m \in [SchemaFields -> {"None", "", "[]", "{}", "value"}] :
        \A f \in SchemaFields : m[f] \in {"None", EmptyOf(f), "value"}}

(* some keys missing, the others holding values; D = {} is the empty record *)
PartialRecords == {[f \in D |-> "value"] : D \in SUBSET SchemaFields}

(* what the extract handler stores when the model's text is not JSON *)
RawTextRecord == [raw_text |-> "value"]

MedicalRecords == FullRecords \cup PartialRecords \cup {RawTextRecord}

CalculateFieldCompletenessCall ==
    /\ ret.op = "completeness" /\ ret.val = "called"
    /\ ret' = Ret("completeness", ret.id, "tuple",
                  [completeness |-> CalculateFieldCompleteness(ret.id[1])[1],
                   count |-> CalculateFieldCompleteness(ret.id[1])[2]])
    /\ UNCHANGED <<store, now, pend, recorded, results>>

InitPure ==
    /\ store = << >>
    /\ now = 0
    /\ pend = [p \in Procs |-> NoCall]
    /\ recorded = << >>
    /\ results = << >>
    /\ \/ \E i \in InputTokenCounts, o \in OutputTokenCounts :
             ret = Ret("cost", <<i, o>>, "called", NoExperiment)
       \/ \E m \in MedicalRecords :
             ret = Ret("completeness", <<m>>, "called", NoExperiment)

NextPure ==
    \/ \E tie_up \in BOOLEAN : CalculateCostCall(tie_up)
    \/ CalculateFieldCompletenessCall

SpecPure == InitPure /\ [][NextPure]_vars

(* C24: calculate_cost returns input_tokens * 0.00000025 + output_tokens *    *)
(* 0.00000125 to the nearest millionth of a dollar (exactly, where the sum    *)
(* is a whole number of millionths); cost(0, 0) = 0, cost(1000, 500) =        *)
(* 0.000875 and cost(1000000, 500000) = 0.875.                                *)
CostAsked == ret.id[1] * 25 + ret.id[2] * 125

C24_CostIsTokensTimesPrices ==
    (ret.op = "cost" /\ ret.val = "float") =>
        /\ 2 * Abs(ret.exp.cost * 100 - CostAsked) <= 100
        /\ CostAsked % 100 = 0 => ret.exp.cost * 100 = CostAsked
        /\ ret.id = <<0, 0>> => ret.exp.cost = 0
        /\ ret.id = <<1000, 500>> => ret.exp.cost = 875
        /\ ret.id = <<1000000, 500000>> => ret.exp.cost = 875000

C24_Witness ==
    /\ ret.op = "cost" /\ ret.val = "float"
    /\ ret.id = <<1000000, 500000>>
    /\ ret.exp.cost = 875000

(* C25: calculate_field_completeness returns (count / 9 * 100, count), count  *)
(* being the number of the nine schema fields that are present and neither    *)
(* null nor an empty string, list or dict; count is in 0..9, nine populated   *)
(* fields give 100% and the empty record gives (0, 0).                        *)
RecordAsked == ret.id[1]

CountAsked ==
    Cardinality({f \in {"patient_name", "date_of_birth", "diagnoses",
                        "medications", "lab_values", "procedures", "allergies",
                        "vital_signs", "notes"} :
                    /\ f \in DOMAIN RecordAsked
                    /\ RecordAsked[f] \notin {"None", "", "[]", "{}"}})

C25_CompletenessCountsPopulatedFields ==
    (ret.op = "completeness" /\ ret.val = "tuple") =>
        /\ ret.exp.count = CountAsked
        /\ ret.exp.count \in 0..9
        /\ 2 * Abs(ret.exp.completeness * 9 - CountAsked * 10000) <= 9
        /\ CountAsked = 9 => ret.exp.completeness = 10000
        /\ DOMAIN RecordAsked = {} =>
               ret.exp.completeness = 0 /\ ret.exp.count = 0

C25_Witness ==
    /\ ret.op = "completeness" /\ ret.val = "tuple"
    /\ DOMAIN RecordAsked = SchemaFields
    /\ RecordAsked["medications"] = "[]"
    /\ RecordAsked["lab_values"] = "{}"
    /\ RecordAsked["notes"] = "None"
    /\ RecordAsked["allergies"] = "None"
    /\ RecordAsked["vital_signs"] = "{}"
    /\ RecordAsked["procedures"] = "[]"
    /\ ret.exp.count = 3
    /\ ret.exp.completeness = 3333


(* C26: a summary get_prompt_metrics returns covers every stored record of    *)
(* the version in the window, and the answer for "no data" is given only      *)
(* when there is none: a scan that failed or returned part of the records     *)
(* yields neither.                                                            *)
C26_CompleteScanOrFailure ==
    ret.op = "metrics" =>
        /\ ret.val = "PromptMetrics" =>
               ret.exp.total_requests = Cardinality(RecordsInWindow)
        /\ ret.val = "None" => RecordsInWindow = {}


-----------------------------------------------------------------------------
(* The pipeline writing records while metrics and comparisons are read: the  *)
(* scans either fail or return the whole table                               *)
NextReads ==
    \/ PassWindow
    \/ \E p \in Procs : Upload(p)
    \/ \E p \in Procs, id \in DocumentIds, v \in PromptVersions : ExtractBegin(p, id, v)
    \/ \E p \in Procs, m \in Extractions, u \in TokenUsages : ExtractSucceed(p, m, u)
    \/ \E p \in Procs : ExtractFail(p)
    \/ \E p \in Procs, v \in PromptVersions, scan \in {ScanError, ScanAll(results)} :
          GetPromptMetricsCall(p, v, scan)
    \/ \E p \in Procs, c \in PromptVersions, v \in PromptVersions, l \in {95},
          sc \in {ScanError, ScanAll(results)}, sv \in {ScanError, ScanAll(results)} :
          ComparePromptsCall(p, c, v, l, sc, sv)

SpecReads == Init /\ [][NextReads]_vars

ReadOps == {"metrics", "compare"}

-----------------------------------------------------------------------------
(* C28: once an extraction attempt has resolved (its record is completed or  *)
(* failed), no later step changes, replaces or removes that record.           *)
Resolved(id) == id \in DOMAIN results /\ results[id].status \in {COMPLETED, FAILED}

C28_ResolvedRecordNeverMutated ==
    [][\A id \in DocumentIds :
          Resolved(id) => (id \in DOMAIN results' /\ results'[id] = results[id])]_vars


-----------------------------------------------------------------------------
(* C29: a start, record_request, complete or promote addressed to an          *)
(* experiment_id that is not in the store reports failure and leaves the      *)
(* store unchanged, so no record appears for the unknown id.                  *)
AddressedOps == {"start", "record", "complete", "promote"}
Failure == {"False", "raise"}

C29_UnknownIdFailsAndChangesNothing ==
    [][(now' = now /\ ret'.op \in AddressedOps /\ ret'.id \notin DOMAIN store) =>
          (store' = store /\ ret'.val \in Failure)]_vars


-----------------------------------------------------------------------------
(* PromptManager.  A text is a sequence of pieces: runs of ordinary text, a   *)
(* lone brace of the JSON the prompts show, and the two placeholders the      *)
(* repository uses ("{document_text}" here and in the inline prompt of the   *)
(* Bedrock service, "{document_content}" in the Lambda extract handler,      *)
(* which reads the same prompts directory).  No two pieces join into a        *)
(* placeholder, so replacing pieces is replacing characters.                  *)
MaxTemplateLen == 2
MaxTextLen == 2

DEFAULT_VERSION == "v2.0.0"
PromptFiles == {"v1.0.0", "v2.0.0"}
Placeholder == <<"{document_text}">>

TemplatePieces == {"text", "{", "{document_text}", "{document_content}"}
TextPieces == {"Patient", "{", "{document_text}"}

SeqsUpTo(pieces, n) == UNION {[1..k -> pieces] : k \in 0..n}

(* the v*.txt files of the prompts directory, as _load_available_versions     *)
(* caches them: at least one version, each with whatever its file holds       *)
Caches ==
    UNION {[vs -> SeqsUpTo(TemplatePieces, MaxTemplateLen)] :
              vs \in (SUBSET PromptFiles) \ {{}}}

(* sub in s: s holds sub as a contiguous part *)
Contains(s, sub) ==
    \E i \in 0..(Len(s) - Len(sub)) : SubSeq(s, i + 1, i + Len(sub)) = sub

(* str.replace(old, new): every occurrence of old, found from the left and    *)
(* not overlapping, becomes new; what is inserted is not searched again       *)
RECURSIVE Replace(_, _, _)
Replace(s, old, new) ==
    IF Len(s) < Len(old) \/ Len(s) = 0 THEN s
    ELSE IF SubSeq(s, 1, Len(old)) = old
         THEN new \o Replace(SubSeq(s, Len(old) + 1, Len(s)), old, new)
         ELSE <<Head(s)>> \o Replace(Tail(s), old, new)

(* version or DEFAULT_VERSION: None and "" give the default *)
NoVersion == "None"
VersionOrDefault(version) ==
    IF version \in {NoVersion, ""} THEN DEFAULT_VERSION ELSE version

(* get_prompt: the cached template of the version; it raises ValueError when  *)
(* the version is not in the cache                                            *)
GetPromptRaises(cache, version) == VersionOrDefault(version) \notin DOMAIN cache
GetPrompt(cache, version) == cache[VersionOrDefault(version)]

(* format_prompt, for a version get_prompt finds *)
FormatPrompt(cache, document_text, version) ==
    LET template == GetPrompt(cache, version)
    IN IF ~Contains(template, Placeholder) THEN template
       ELSE Replace(template, Placeholder, document_text)

FormatPromptCall ==
    /\ ret.op = "format_prompt" /\ ret.val = "called"
    /\ ret' = IF GetPromptRaises(ret.id[3], ret.id[2])
              THEN Ret("format_prompt", ret.id, "ValueError", NoExperiment)
              ELSE Ret("format_prompt", ret.id, "str",
                       [prompt |-> FormatPrompt(ret.id[3], ret.id[1], ret.id[2])])
    /\ UNCHANGED <<store, now, pend, recorded, results>>

InitPrompt ==
    /\ store = << >>
    /\ now = 0
    /\ pend = [p \in Procs |-> NoCall]
    /\ recorded = << >>
    /\ results = << >>
    /\ \E d \in SeqsUpTo(TextPieces, MaxTextLen),
          v \in PromptFiles \cup {"v999.0.0", NoVersion}, c \in Caches :
          ret = Ret("format_prompt", <<d, v, c>>, "called", NoExperiment)

NextPrompt == FormatPromptCall

SpecPrompt == InitPrompt /\ [][NextPrompt]_vars

(* C30: whenever format_prompt returns a prompt for a version that is         *)
(* available, the prompt contains the document text it was given.             *)
C30_PromptContainsDocument ==
    (ret.op = "format_prompt" /\ ret.val = "str") =>
        Contains(ret.exp.prompt, ret.id[1])


-----------------------------------------------------------------------------
(* Tables for the percentiles: count completed records of "v1", extracted at *)
(* time 0, whose latencies follow one of four shapes, and failed records of  *)
(* the same version after them                                               *)
LatencyCounts == {0, 1, 2, 3, 10, 19, 20, 21, 50, 100, 101}
LatencyShapes == {"rising", "falling", "mixed", "equal"}
FailedCounts == {0, 1}

Latency(shape, n, count) ==
    IF shape = "rising" THEN n * 10
    ELSE IF shape = "falling" THEN (count - n) * 10
    ELSE IF shape = "mixed" THEN ((n * 7) % 11) * 100
    ELSE 250

LatencyRecords(shape, count, failed) ==
    [id \in {DocumentId(n) : n \in 1..(count + failed)} |->
        IF id[2] <= count
        THEN [CompletedRecord(id, "v1", BaseUsage)
                 EXCEPT !.processing_time_ms = Latency(shape, id[2], count)]
        ELSE FailedRecord(id, "v1", BaseUsage)]

InitLatency ==
    /\ store = << >>
    /\ now = 0
    /\ pend = [p \in Procs |-> NoCall]
    /\ recorded = << >>
    /\ \E shape \in LatencyShapes, count \in LatencyCounts, failed \in FailedCounts :
          /\ results = LatencyRecords(shape, count, failed)
          /\ ret = Ret("upload", DocumentId(count + failed + 1), "200", NoExperiment)

NextLatency ==
    \E p \in Procs, v \in PromptVersions, scan \in {ScanError, ScanAll(results)} :
        GetPromptMetricsCall(p, v, scan)

SpecLatency == InitLatency /\ [][NextLatency]_vars

(* C31: over the n >= 1 successful latencies of the summary, sorted           *)
(* ascending, the value reported for p in {0.50, 0.95, 0.99} is the element   *)
(* at index floor(n * p), which lies in 0..n-1; with no successful latency    *)
(* the three percentiles and the average are 0.                               *)
SuccessfulInWindow == {id \in RecordsInWindow : results[id].status = COMPLETED}

Below(x) == Cardinality({id \in SuccessfulInWindow : results[id].processing_time_ms < x})
UpTo(x) == Cardinality({id \in SuccessfulInWindow : results[id].processing_time_ms <= x})

IsElementAt(x, pct) ==
    LET n == Cardinality(SuccessfulInWindow)
        k == (n * pct) \div 100
    IN /\ k \in 0..(n - 1)
       /\ Below(x) <= k
       /\ k < UpTo(x)

C31_PercentileIsElementAtFloor ==
    MetricsReturned =>
        IF SuccessfulInWindow = {}
        THEN /\ ret.exp.p50_processing_time_ms = 0
             /\ ret.exp.p95_processing_time_ms = 0
             /\ ret.exp.p99_processing_time_ms = 0
             /\ ret.exp.avg_processing_time_ms = 0
        ELSE /\ IsElementAt(ret.exp.p50_processing_time_ms, 50)
             /\ IsElementAt(ret.exp.p95_processing_time_ms, 95)
             /\ IsElementAt(ret.exp.p99_processing_time_ms, 99)

C31_Witness ==
    /\ MetricsReturned
    /\ Cardinality(SuccessfulInWindow) = 101
    /\ ret.exp.p50_processing_time_ms = 500
    /\ ret.exp.p95_processing_time_ms = 950
    /\ ret.exp.p99_processing_time_ms = 990


-----------------------------------------------------------------------------
(* get_prompt_metrics called with a window: start_date and end_date are each *)
(* None or a time.  ret.id holds the version, the time of the call and the   *)
(* two arguments.                                                            *)
GetPromptMetricsWindowCall(p, prompt_version, start_date, end_date, scan) ==
    LET metrics == GetPromptMetrics(results, prompt_version, start_date, end_date,
                                    now, scan)
    IN /\ pend[p].op = "idle"
       /\ ret' = Ret("window", <<prompt_version, now, start_date, end_date>>,
                     IF IsNone(metrics) THEN "None" ELSE "PromptMetrics", metrics)
       /\ UNCHANGED <<store, now, pend, recorded, results>>

(* Tables for the window: up to MaxDocs records, each of either version,      *)
(* completed or failed, extracted at one of three consecutive times; the     *)
(* call comes right after, a whole default window after time 0, or one tick  *)
(* later than that.  The arguments of the call are drawn with the table.     *)
WindowTimes == {0, 1, 2}
WindowDates == {None} \cup {Some(t) : t \in WindowTimes}
CallTimes == {2, Window, Window + 1}

WindowRecord(id, prompt_version, failed, t) ==
    [(IF failed THEN FailedRecord(id, prompt_version, BaseUsage)
      ELSE CompletedRecord(id, prompt_version, BaseUsage))
        EXCEPT !.extracted_at = t]

WindowTables ==
    UNION {{[id \in {DocumentId(n) : n \in 1..k} |->
                WindowRecord(id, f[id[2]][1], f[id[2]][2], f[id[2]][3])] :
               f \in [1..k -> PromptVersions \X BOOLEAN \X WindowTimes]} :
           k \in 0..MaxDocs}

InitWindow ==
    /\ store = << >>
    /\ pend = [p \in Procs |-> NoCall]
    /\ recorded = << >>
    /\ results \in WindowTables
    /\ now \in CallTimes
    /\ \E v \in PromptVersions, s \in WindowDates, e \in WindowDates :
          ret = Ret("window", <<v, now, s, e>>, "called", NoExperiment)

NextWindow ==
    \E p \in Procs, scan \in ScanOutcomes(results) :
       /\ ret.op = "window" /\ ret.val = "called"
       /\ GetPromptMetricsWindowCall(p, ret.id[1], ret.id[3], ret.id[4], scan)

SpecWindow == InitWindow /\ [][NextWindow]_vars

(* C32: a stored record is counted in total_requests of                       *)
(* get_prompt_metrics(version, start, end) exactly when its prompt_version is *)
(* the version and start <= extracted_at <= end, both ends included; an       *)
(* omitted end is the time of the call and an omitted start is 7 days before  *)
(* the end.                                                                   *)
WindowEnd == IF ret.id[4] = None THEN ret.id[2] ELSE ret.id[4][1]
WindowStart ==
    IF ret.id[3] = None
    THEN WindowEnd - 7 * SecondsPerDay * TicksPerSecond
    ELSE ret.id[3][1]

Matching ==
    {id \in DOMAIN results :
        /\ results[id].prompt_version = ret.id[1]
        /\ WindowStart <= results[id].extracted_at
        /\ results[id].extracted_at <= WindowEnd}

C32_CountedIffVersionAndWindow ==
    (ret.op = "window" /\ ret.val # "called") =>
        IF ret.val = "PromptMetrics"
        THEN ret.exp.total_requests = Cardinality(Matching)
        ELSE Matching = {}


-----------------------------------------------------------------------------
(* Which template an extraction sends.  A template is named by the file it   *)
(* was read from; "inline" is the prompt written out in the code.  The       *)
(* prompts directory holds any of three version files.                       *)
TemplateFiles == PromptFiles \cup {"v1.1.0"}
Inline == "inline"
RequestedVersions == TemplateFiles \cup {"v1", "v2", "v9.9.9"}

(* load_prompt of the Lambda extract handler: the file of the version; the   *)
(* file of v2.0.0 when there is none; the inline prompt when that cannot be  *)
(* read either                                                               *)
LoadPrompt(files, version) ==
    IF version \in files THEN version
    ELSE IF "v2.0.0" \in files THEN "v2.0.0"
    ELSE Inline

(* version_map of BedrockService._build_extraction_prompt *)
VersionMap(version) ==
    IF version = "v1" THEN "v1.0.0"
    ELSE IF version = "v2" THEN "v2.0.0"
    ELSE version

(* _build_extraction_prompt: the template of the mapped version from the     *)
(* PromptManager, the inline prompt when that raises                         *)
BuildExtractionPrompt(files, version) ==
    IF VersionMap(version) \in files THEN VersionMap(version) ELSE Inline

(* Lambda extract handler, model call succeeded: the record gets the         *)
(* prompt_version of the request.  ret.id holds the document, the requested  *)
(* version and the files of the prompts directory; ret.exp the template sent *)
HandlerExtract(p, medical_data, token_usage) ==
    /\ ret.op = "prompt" /\ ret.val = "called"
    /\ pend[p].op = "idle"
    /\ results' = UpdateResult(results, ret.id[1],
                     CompletedAttrs(ret.id[2], medical_data, token_usage, now, now))
    /\ ret' = Ret("prompt", ret.id, "200", [template |-> LoadPrompt(ret.id[3], ret.id[2])])
    /\ UNCHANGED <<store, now, pend, recorded>>

(* process_document, extraction succeeded *)
ProcessDocument(p, medical_data, token_usage) ==
    /\ ret.op = "prompt" /\ ret.val = "called"
    /\ pend[p].op = "idle"
    /\ results' = UpdateResult(results, ret.id[1],
                     CompletedAttrs(ret.id[2], medical_data, token_usage, now, now))
    /\ ret' = Ret("prompt", ret.id, "200",
                  [template |-> BuildExtractionPrompt(ret.id[3], ret.id[2])])
    /\ UNCHANGED <<store, now, pend, recorded>>

InitTemplate ==
    /\ store = << >>
    /\ now \in 0..MaxClock
    /\ pend = [p \in Procs |-> NoCall]
    /\ recorded = << >>
    /\ results = (DocumentId(1) :> Metadata(DocumentId(1), 0))
    /\ \E v \in RequestedVersions, files \in SUBSET TemplateFiles :
          ret = Ret("prompt", <<DocumentId(1), v, files>>, "called", NoExperiment)

NextTemplate ==
    \/ \E p \in Procs, m \in Extractions, u \in TokenUsages : HandlerExtract(p, m, u)
    \/ \E p \in Procs, m \in Extractions, u \in TokenUsages : ProcessDocument(p, m, u)

SpecTemplate == InitTemplate /\ [][NextTemplate]_vars

(* C33: whenever a completed record is stored with prompt_version v, the      *)
(* prompt that was sent is template v (the template a legacy alias stands     *)
(* for, when v is an alias), never another template.                          *)
C33_StoredVersionIsTemplateSent ==
    (ret.op = "prompt" /\ ret.val = "200") =>
        ret.exp.template = VersionMap(results[ret.id[1]].prompt_version)


-----------------------------------------------------------------------------
(* GET metrics for a version with ?days=N.  ret.id holds the version, the    *)
(* time of the request and N, and after the request the path that served it. *)
DaysAsked == {1, 7, 30}
Days(n) == n * SecondsPerDay * TicksPerSecond

(* FastAPI route: days is declared and validated (1..90) but the service is  *)
(* called with the version alone                                             *)
RouteMetricsCall(p, scan) ==
    LET metrics == GetPromptMetrics(results, ret.id[1], None, None, now, scan)
    IN /\ ret.op = "days" /\ ret.val = "called"
       /\ pend[p].op = "idle"
       /\ ret' = Ret("days", <<ret.id[1], ret.id[2], ret.id[3], "route">>,
                     IF IsNone(metrics) THEN "404" ELSE "200", metrics)
       /\ UNCHANGED <<store, now, pend, recorded, results>>

(* Lambda handler: end_date = utcnow(), start_date = end_date - days *)
LambdaMetricsCall(p, scan) ==
    LET metrics == GetPromptMetrics(results, ret.id[1], Some(now - Days(ret.id[3])),
                                    Some(now), now, scan)
    IN /\ ret.op = "days" /\ ret.val = "called"
       /\ pend[p].op = "idle"
       /\ ret' = Ret("days", <<ret.id[1], ret.id[2], ret.id[3], "lambda">>,
                     IF IsNone(metrics) THEN "404" ELSE "200", metrics)
       /\ UNCHANGED <<store, now, pend, recorded, results>>

InitDays ==
    /\ store = << >>
    /\ pend = [p \in Procs |-> NoCall]
    /\ recorded = << >>
    /\ results \in WindowTables
    /\ now \in CallTimes
    /\ \E v \in PromptVersions, n \in DaysAsked :
          ret = Ret("days", <<v, now, n>>, "called", NoExperiment)

NextDays ==
    \/ \E p \in Procs, scan \in {ScanError, ScanAll(results)} : RouteMetricsCall(p, scan)
    \/ \E p \in Procs, scan \in {ScanError, ScanAll(results)} : LambdaMetricsCall(p, scan)

SpecDays == InitDays /\ [][NextDays]_vars

(* C34: a summary served for version v with days = N, by the FastAPI route    *)
(* or by the Lambda handler, counts exactly the records of v of the trailing  *)
(* N days, so the two paths serve the same summary for the same request.      *)
TrailingDays ==
    {id \in DOMAIN results :
        /\ results[id].prompt_version = ret.id[1]
        /\ ret.id[2] - Days(ret.id[3]) <= results[id].extracted_at
        /\ results[id].extracted_at <= ret.id[2]}

C34_DaysHonouredOnBothPaths ==
    (ret.op = "days" /\ ret.val = "200") =>
        ret.exp.total_requests = Cardinality(TrailingDays)


-----------------------------------------------------------------------------
(* C35: when an extraction attempt with prompt version v fails, the summary   *)
(* get_prompt_metrics(v) gives right after it (default window, complete       *)
(* scan) exists, counts a failed request and has a success_rate below 100.    *)
FailedAttemptSeen(p) ==
    LET metrics == GetPromptMetrics(results', pend[p].prompt_version, None, None,
                                    now', ScanAll(results'))
    IN /\ ~IsNone(metrics)
       /\ metrics.failed_requests >= 1
       /\ metrics.total_requests >= 1
       /\ metrics.success_rate < 10000

C35_FailedAttemptIsCounted ==
    [][\A p \in Procs :
          (pend[p].op = "extract" /\ pend'[p].op = "idle" /\ ret'.val = "500") =>
              FailedAttemptSeen(p)]_vars


-----------------------------------------------------------------------------
(* The FastAPI process route.  It works on the items of the same table as    *)
(* the Lambda handlers, through DynamoDBService.                             *)

(* update_status: update_item SET #status, updated_at *)
UpdateStatus(tbl, id, status, t) ==
    UpdateResult(tbl, id, [status |-> status, updated_at |-> t])

(* save_extraction_result: put_item of an item built from the fields of the  *)
(* result that are set and truthy; the item replaces the stored one          *)
OptionalAttr(result, f) ==
    IF f \in DOMAIN result THEN (f :> result[f]) ELSE << >>

SaveExtractionResult(tbl, result, t) ==
    LET item == [document_id |-> result.document_id,
                 filename |-> result.filename,
                 status |-> result.status,
                 updated_at |-> t]
                @@ OptionalAttr(result, "medical_data")
                @@ OptionalAttr(result, "extracted_at")
                @@ (IF result.processing_time_ms # 0
                    THEN OptionalAttr(result, "processing_time_ms") ELSE << >>)
                @@ OptionalAttr(result, "model_id")
                @@ (IF result.prompt_version # NoVersion
                    THEN OptionalAttr(result, "prompt_version") ELSE << >>)
                @@ OptionalAttr(result, "token_usage")
                @@ OptionalAttr(result, "error_message")
    IN (result.document_id :> item) @@ tbl

(* the body of POST /process/{document_id}: none, one without a version, or  *)
(* one that names a version                                                  *)
NoRequest == "no body"
ProcessingRequests == PromptVersions \cup {NoRequest, NoVersion}

(* process_document up to the model call: get_result, then status            *)
(* processing.  The call keeps what it uses of the metadata it read.         *)
ProcessBegin(p, id, request) ==
    /\ pend[p].op = "idle"
    /\ IF id \notin DOMAIN results
       THEN /\ ret' = Ret("process", id, "404", NoExperiment)
            /\ UNCHANGED <<results, pend>>
       ELSE /\ results' = UpdateStatus(results, id, PROCESSING, now)
            /\ pend' = [pend EXCEPT ![p] =
                           [op |-> "process", id |-> id,
                            prompt_version |->
                                IF request = NoRequest THEN "v1" ELSE request,
                            start_time |-> now,
                            filename |-> results[id].filename,
                            has_s3_key |-> "s3_key" \in DOMAIN results[id]]]
            /\ ret' = Ret("process", id, "pending", NoExperiment)
    /\ UNCHANGED <<store, now, recorded>>

(* the model call returned medical data: the completed result is saved *)
ProcessSucceed(p, medical_data, token_usage) ==
    /\ pend[p].op = "process"
    /\ pend[p].has_s3_key
    /\ results' = SaveExtractionResult(results,
                     [document_id |-> pend[p].id,
                      filename |-> pend[p].filename,
                      status |-> COMPLETED,
                      medical_data |-> medical_data,
                      extracted_at |-> now,
                      processing_time_ms |-> ProcessingTimeMs(pend[p].start_time, now),
                      model_id |-> ModelId,
                      prompt_version |-> pend[p].prompt_version,
                      token_usage |-> token_usage], now)
    /\ pend' = [pend EXCEPT ![p] = NoCall]
    /\ ret' = Ret("process", pend[p].id, "200", NoExperiment)
    /\ UNCHANGED <<store, now, recorded>>

(* no text could be read from the file (400), or the answer of the model     *)
(* could not be parsed (500): update_status failed, nothing else             *)
ProcessReject(p, code) ==
    /\ pend[p].op = "process"
    /\ pend[p].has_s3_key
    /\ results' = UpdateStatus(results, pend[p].id, FAILED, now)
    /\ pend' = [pend EXCEPT ![p] = NoCall]
    /\ ret' = Ret("process", pend[p].id, code, NoExperiment)
    /\ UNCHANGED <<store, now, recorded>>

(* anything raised (the metadata has no s3_key, S3 or the model call         *)
(* failed): update_status failed, then the failed result is saved            *)
ProcessFail(p) ==
    /\ pend[p].op = "process"
    /\ results' = SaveExtractionResult(UpdateStatus(results, pend[p].id, FAILED, now),
                     [document_id |-> pend[p].id,
                      filename |-> pend[p].filename,
                      status |-> FAILED,
                      processing_time_ms |-> 0,
                      prompt_version |-> NoVersion,
                      error_message |-> "error"], now)
    /\ pend' = [pend EXCEPT ![p] = NoCall]
    /\ ret' = Ret("process", pend[p].id, "500", NoExperiment)
    /\ UNCHANGED <<store, now, recorded>>

NextProcess ==
    \/ Tick
    \/ \E p \in Procs : Upload(p)
    \/ \E p \in Procs, id \in DocumentIds, r \in ProcessingRequests : ProcessBegin(p, id, r)
    \/ \E p \in Procs, m \in Extractions, u \in TokenUsages : ProcessSucceed(p, m, u)
    \/ \E p \in Procs, code \in {"400", "500"} : ProcessReject(p, code)
    \/ \E p \in Procs : ProcessFail(p)

SpecProcess == Init /\ [][NextProcess]_vars


(* C36: once every process or extract call for a document has returned, its   *)
(* stored status is not processing, and a document whose calls have returned  *)
(* with status completed has medical_data, prompt_version and extracted_at.   *)
CallsReturned(id) ==
    \A p \in Procs : ~(pend[p].op \in {"process", "extract"} /\ pend[p].id = id)

Settled(id) == results[id].status # PROCESSING

CompletedInFull(id) ==
    results[id].status = COMPLETED =>
        {"medical_data", "prompt_version", "extracted_at"} \subseteq DOMAIN results[id]

C36_NeverLeftProcessing ==
    \A id \in DOMAIN results :
        CallsReturned(id) => (Settled(id) /\ CompletedInFull(id))


(* C37: when a process_document call returns, with success or failure, the    *)
(* stored item still has the s3_key and uploaded_at it had before the step.   *)
UploadAttrs == {"s3_key", "uploaded_at"}

KeepsUploadAttrs(id) ==
    \A f \in UploadAttrs \cap DOMAIN results[id] :
        f \in DOMAIN results'[id] /\ results'[id][f] = results[id][f]

C37_ProcessKeepsUploadMetadata ==
    [][\A p \in Procs :
          (pend[p].op = "process" /\ pend'[p].op = "idle") =>
              KeepsUploadAttrs(pend[p].id)]_vars


-----------------------------------------------------------------------------
(* C38: two compare_prompts calls on the same table, for the same versions    *)
(* at the same time, that both return a result return the same result in      *)
(* every field but confidence_level, whatever confidence levels they name.    *)
Verdict(result) == [result EXCEPT !.confidence_level = 0]

C39_PromoteOnlyBelowCostLimit ==
    (CompareReturned /\ ret.exp.recommendation = "PROMOTE") =>
        5 * ret.exp.treatment_avg_cost < 6 * ret.exp.control_avg_cost

====
